---- MODULE Spec2Model ----
(***************************************************************************)
(* Text layouting of typst (src/layout/text.rs): layout_text lays a text   *)
(* out left to right, selecting a font for every character through the    *)
(* shared font loader and batching the characters of one font into one     *)
(* WriteText action.                                                       *)
(*                                                                         *)
(* One behaviour is one call of layout_text(text, ctx), under SpecAgain    *)
(* followed by a second call with the same arguments.  The font loader     *)
(* and the font tables are collaborators (crate toddle): the loader is     *)
(* modelled by the answers it has given so far (equal queries are answered *)
(* equally), every answer being chosen freely the first time a query is    *)
(* issued.                                                                 *)
(***************************************************************************)
EXTENDS Integers, Sequences, FiniteSets, TLC

\* ------------------------------------------------------------------ bounds
\* Longest text and longest fallback list that are explored.
MaxLen == 3
MaxFallback == 2
\* Longest text that is laid out twice.
MaxLenAgain == 2

\* The characters of a text.
Chars == {"a", "b"}
\* The font classes a style can list as primary classes and as fallback.
PrimaryClassLists == {<<>>, <<"Regular">>}
FallbackClasses == {"Serif", "Monospace"}
\* The font sizes (in points) of a style.
FontSizes == {1, 3}

\* All sequences over S of length at most n.
SeqUpTo(S, n) == UNION {[1..k -> S] : k \in 0..n}

Texts == SeqUpTo(Chars, MaxLen)
TextStyles ==
    [classes : PrimaryClassLists,
     fallback : SeqUpTo(FallbackClasses, MaxFallback),
     font_size : FontSizes]

\* ------------------------------------------------------- the font loader
\* Indices the loader gives to its fonts.  Fonts 0 and 1 are sound, font 2
\* has a defect in its tables.
Handles == {0, 1, 2}
DefectiveFont == 2
\* std::usize::MAX, the initial active_font.  It is represented by the
\* largest integer of the checker; it is larger than every index a loader
\* can give to a font.
UsizeMax == 2147483647

\* What loader.get(query) returns: None, or Some((font, index)).
None == <<>>
Some(index) == <<index>>
Answers == {None} \cup {Some(index) : index \in Handles}

\* A FontQuery {chars: &[c], classes}.
FontQuery(c, cls) == [chars |-> <<c>>, classes |-> cls]

\* The tables of the sound fonts: Header.units_per_em, CharMap.get(c) and
\* HorizontalMetrics.get(glyph).advance_width.
UnitsPerEm(font) == IF font = 0 THEN 1 ELSE 2
CharMap(font, c) == IF c = "a" THEN 10 * font + 1 ELSE 10 * font + 2
AdvanceWidth(font, glyph) ==
    IF font = 0 THEN (IF glyph = 1 THEN 1 ELSE 2)
    ELSE (IF glyph = 11 THEN 1 ELSE 3)

\* What reading a defective font can end in: read_table failing on one of
\* the three tables (an Err propagated by `?`), or a table lacking the
\* entry (a panic of `expect`).
TableErrors == {"Header", "CharMap", "HorizontalMetrics"}
Panics == {"layout text: font should have char",
           "layout text: font should have glyph"}

\* --------------------------------------------------------------- sizes
\* A Size is a length in points.  Sizes are kept as integers counting
\* 1/PtScale pt: units_per_em is 1 or 2 in the fonts above, so that every
\* f32 of the computation is a multiple of 1/2 and the arithmetic is exact.
PtScale == 2
\* Size::pt(x)
SizePt(x) == x * PtScale
\* Size::zero()
SizeZero == 0

\* font_unit_to_size(glyph_width) * font_size, with
\* font_unit_ratio = 1.0 / units_per_em.
CharWidth(font, glyph_width, font_size) ==
    (PtScale \div UnitsPerEm(font)) * glyph_width * font_size

\* -------------------------------------------------------- layout actions
\* Mutant: SetFont carries the size converted to a Size, as the height is.
SetFontSizeInPt(index, size) ==
    [op |-> "SetFont", font |-> index, size |-> SizePt(size)]
SetFont(index, size) == [op |-> "SetFont", font |-> index, size |-> size]
WriteText(buf) == [op |-> "WriteText", text |-> buf]

VARIABLES
    text,         \* the text of the call
    style,        \* ctx.style
    loader,       \* ctx.loader: the answers of the font loader so far
    held,         \* whether the loader is mutably borrowed
    pc,           \* position in layout / select_font
    pos,          \* the index in text of the character being processed
    tag,          \* the index in style.fallback of the class being tried
    classes,      \* self.classes
    actions,      \* self.actions
    buffer,       \* self.buffer
    active_font,  \* self.active_font
    width,        \* self.width
    selected,     \* (index, char_width) returned by select_font
    result,       \* what layout_text returned
    queries,      \* history: the queries issued to the loader, in order
    resolved,     \* history: what select_font returned for each character
    borrows,      \* history: the number of borrow_mut calls
    defect,       \* how reading the tables of the defective font ends
    previous      \* what the previous call with this text and style returned

vars == <<text, style, loader, held, pc, pos, tag, classes, actions, buffer,
          active_font, width, selected, result, queries, resolved, borrows,
          defect, previous>>

NoResult == [kind |-> "Running"]
\* The tables of the defective font have not been read yet.
Unread == [kind |-> "Unread"]
\* There was no call before this one.
NoCall == [kind |-> "NoCall"]

\* Mutant: the layouter works on the class list of the style itself, with
\* whatever an earlier layouter left in it.
SharedClasses(working) == working
\* classes: ctx.style.classes.clone() in TextLayouter::new; the working list
\* of an earlier layouter is dropped with it.
ClonedClasses(working) == style.classes

\* Mutant: the layouter starts with the loader's first font as active font.
FirstFontActive == CHOOSE h \in Handles : \A g \in Handles : h <= g
\* active_font: std::usize::MAX in TextLayouter::new
InitialActiveFont == UsizeMax

\* TextLayouter::new(text, ctx)
Init ==
    /\ text \in Texts
    /\ style \in TextStyles
    /\ loader = <<>>
    /\ held = FALSE
    /\ pc = "loop"
    /\ pos = 1
    /\ tag = 1
    /\ classes = ClonedClasses(style.classes)
    /\ actions = <<>>
    /\ buffer = <<>>
    /\ active_font = InitialActiveFont
    /\ width = SizeZero
    /\ selected = <<>>
    /\ result = NoResult
    /\ queries = <<>>
    /\ resolved = <<>>
    /\ borrows = 0
    /\ defect = Unread
    /\ previous = NoCall

\* The queries that list the primary classes of the style alone.
PrimaryQueries == {FontQuery(c, style.classes) : c \in Chars}
\* The same call against a loader whose answers to the queries with the
\* primary classes alone are known: None or one of the sound fonts.
InitPrimary ==
    /\ text \in Texts
    /\ style \in TextStyles
    /\ loader \in [PrimaryQueries -> Answers \ {Some(DefectiveFont)}]
    /\ held = FALSE
    /\ pc = "loop"
    /\ pos = 1
    /\ tag = 1
    /\ classes = ClonedClasses(style.classes)
    /\ actions = <<>>
    /\ buffer = <<>>
    /\ active_font = InitialActiveFont
    /\ width = SizeZero
    /\ selected = <<>>
    /\ result = NoResult
    /\ queries = <<>>
    /\ resolved = <<>>
    /\ borrows = 0
    /\ defect = Unread
    /\ previous = NoCall

\* ------------------------------------------------- pieces of select_font
\* self.classes.push(class.clone())
PushClass(cls, class) == Append(cls, class)
\* self.classes.pop()
PopClass(cls) == SubSeq(cls, 1, Len(cls) - 1)
\* The class list select_font leaves behind when a font was found: the
\* function returns from inside the loop, before self.classes.pop().
ClassesOnReturn(pushed) == pushed
\* Mutant: a class that gave no font is tried again.
NextTagRetrying(t) == t
\* Mutant: the loop over the fallback list skips a class.
NextTagSkipping(t) == t + 2
\* The next iteration of `for class in &self.ctx.style.fallback`.
NextTag(t) == t + 1
\* Mutant: the error names the first character of the text.
ErrNamingFirstChar(c) == [kind |-> "NoSuitableFont", char |-> text[1]]
\* Mutant: the borrow of the loader outlives select_font.
BorrowKept(h) == h
\* `loader` (the RefMut of borrow_mut) goes out of scope when select_font
\* returns or unwinds.
BorrowDropped(h) == FALSE
\* Err(LayoutError::NoSuitableFont(c))
ErrNoSuitableFont(c) == [kind |-> "NoSuitableFont", char |-> c]
\* Mutant: a font whose tables cannot be used is reported like a
\* character without font.
FaultsAsNoSuitableFont == {[kind |-> "NoSuitableFont", char |-> text[pos]]}
\* The ways reading the tables of a defective font ends.
Faults ==
    {[kind |-> "FontError", table |-> t] : t \in TableErrors}
        \cup {[kind |-> "Panic", message |-> m] : m \in Panics}
\* (index, char_width) for a sound font.
Selection(font, c, font_size) ==
    <<font, CharWidth(font, AdvanceWidth(font, CharMap(font, c)), font_size)>>

\* ------------------------------------------------------ pieces of layout
\* Mutant: every character is taken for a font switch.
FontAlwaysChanged(active, index) == TRUE
\* if self.active_font != index
FontChanged(active, index) == active # index
\* Mutant: the pending buffer is not written.
NotFlushed(acts, buf) == acts
\* Mutant: the buffer is written without the test for emptiness.
FlushedAlways(acts, buf) == Append(acts, [op |-> "WriteText", text |-> buf])
\* if !self.buffer.is_empty() { self.actions.add(WriteText(self.buffer)) }
Flushed(acts, buf) == IF buf # <<>> THEN Append(acts, WriteText(buf)) ELSE acts
\* Mutant: the buffer is not cleared after it was written.
BufferKept(buf) == buf
\* self.buffer = String::new() after the flush
BufferAfterFlush(buf) == <<>>
\* self.actions.add(LayoutAction::SetFont(index, self.ctx.style.font_size))
WithSetFont(acts, index) == Append(acts, SetFont(index, style.font_size))
\* Mutant: the active font is not updated at a switch.
ActiveUnchanged(active, index) == active
\* self.active_font = index
ActiveAfterSwitch(active, index) == index
\* Mutant: the width is overwritten instead of accumulated.
WidthOverwritten(w, char_width) == char_width
\* self.width += char_width
WidthAfter(w, char_width) == w + char_width
\* Mutant: the character is put in front of the pending run.
BufferPushFront(buf, c) == <<c>> \o buf
\* self.buffer.push(c)
BufferPush(buf, c) == Append(buf, c)
\* Ok(Layout { dimensions, actions, debug_render: false })
LayoutOk(w, acts) ==
    [kind |-> "Ok",
     dimensions |-> [x |-> w, y |-> SizePt(style.font_size)],
     actions |-> acts,
     debug_render |-> FALSE]

\* ---------------------------------------------------------------- actions
\* layout: the loop takes the next character and calls select_font, which
\* borrows the loader mutably.
SelectFont ==
    /\ pc = "loop"
    /\ pos <= Len(text)
    /\ IF held
       THEN \* borrow_mut panics on a RefCell that is already borrowed
            /\ result' = [kind |-> "Panic", message |-> "already borrowed"]
            /\ pc' = "done"
            /\ UNCHANGED <<held, borrows, tag>>
       ELSE /\ held' = TRUE
            /\ borrows' = borrows + 1
            /\ tag' = 1
            /\ pc' = "select"
            /\ UNCHANGED result
    /\ UNCHANGED <<text, style, loader, pos, classes, actions, buffer,
                   active_font, width, selected, queries, resolved,
                   defect, previous>>

\* select_font: one iteration of the loop over style.fallback.  The class is
\* pushed, the loader is queried; without a font the class is popped and the
\* next class is tried; with a font the tables are read and the function
\* returns (the borrow ends with it), or reading the tables fails.
TryFallback ==
    /\ pc = "select"
    /\ tag <= Len(style.fallback)
    /\ LET c == text[pos]
           pushed == PushClass(classes, style.fallback[tag])
           query == FontQuery(c, pushed)
       IN \E answer \in Answers :
            /\ query \in DOMAIN loader => answer = loader[query]
            /\ loader' = (query :> answer) @@ loader
            /\ queries' = Append(queries,
                   [pos |-> pos, tag |-> tag, query |-> query, answer |-> answer])
            /\ IF answer = None
               THEN /\ classes' = PopClass(pushed)
                    /\ tag' = NextTag(tag)
                    /\ UNCHANGED <<held, pc, selected, result, defect>>
               ELSE /\ classes' = ClassesOnReturn(pushed)
                    /\ held' = BorrowDropped(held)
                    /\ tag' = tag
                    /\ IF answer = Some(DefectiveFont)
                       THEN /\ defect' \in Faults
                            /\ defect # Unread => defect' = defect
                            /\ result' = defect'
                            /\ pc' = "done"
                            /\ UNCHANGED selected
                       ELSE /\ selected' = Selection(answer[1], c, style.font_size)
                            /\ pc' = "body"
                            /\ UNCHANGED <<result, defect>>
    /\ UNCHANGED <<text, style, pos, actions, buffer, active_font, width,
                   resolved, borrows, previous>>

\* select_font: the fallback list is exhausted; layout propagates the error.
SelectFontFail ==
    /\ pc = "select"
    /\ tag > Len(style.fallback)
    /\ result' = ErrNoSuitableFont(text[pos])
    /\ held' = BorrowDropped(held)
    /\ pc' = "done"
    /\ UNCHANGED <<text, style, loader, pos, tag, classes, actions, buffer,
                   active_font, width, selected, queries, resolved, borrows,
                   defect, previous>>

\* layout: the rest of the loop body, after select_font returned Ok.
Batch ==
    /\ pc = "body"
    /\ LET index == selected[1]
           char_width == selected[2]
           changed == FontChanged(active_font, index)
       IN /\ width' = WidthAfter(width, char_width)
          /\ actions' = IF changed
                        THEN WithSetFont(Flushed(actions, buffer), index)
                        ELSE actions
          /\ active_font' = IF changed
                            THEN ActiveAfterSwitch(active_font, index)
                            ELSE active_font
          /\ buffer' = BufferPush(IF changed /\ buffer # <<>>
                                  THEN BufferAfterFlush(buffer)
                                  ELSE buffer, text[pos])
          /\ resolved' = Append(resolved, selected)
    /\ pos' = pos + 1
    /\ pc' = "loop"
    /\ UNCHANGED <<text, style, loader, held, tag, classes, selected, result,
                   queries, borrows, defect, previous>>

\* layout: the loop is over; the pending buffer is flushed and the Layout
\* is returned.
Finish ==
    /\ pc = "loop"
    /\ pos > Len(text)
    /\ actions' = Flushed(actions, buffer)
    /\ result' = LayoutOk(width, actions')
    /\ pc' = "done"
    /\ UNCHANGED <<text, style, loader, held, pos, tag, classes, buffer,
                   active_font, width, selected, queries, resolved, borrows,
                   defect, previous>>

\* layout_text is called a second time with the same text and context: a
\* new TextLayouter is created, the loader and its fonts are the same.
CallAgain ==
    /\ pc = "done"
    /\ previous = NoCall
    /\ previous' = result
    /\ result' = NoResult
    /\ pc' = "loop"
    /\ pos' = 1
    /\ tag' = 1
    /\ classes' = ClonedClasses(classes)
    /\ actions' = <<>>
    /\ buffer' = <<>>
    /\ active_font' = InitialActiveFont
    /\ width' = SizeZero
    /\ selected' = <<>>
    /\ queries' = <<>>
    /\ resolved' = <<>>
    /\ borrows' = 0
    /\ UNCHANGED <<text, style, loader, held, defect>>

Next == SelectFont \/ TryFallback \/ SelectFontFail \/ Batch \/ Finish

Spec == Init /\ [][Next]_vars

\* The calls against a loader with known answers to the primary queries.
SpecPrimary == InitPrimary /\ [][Next]_vars

\* A call followed by a second call with the same text and context.
InitAgain ==
    /\ text \in SeqUpTo(Chars, MaxLenAgain)
    /\ style \in TextStyles
    /\ loader = <<>>
    /\ held = FALSE
    /\ pc = "loop"
    /\ pos = 1
    /\ tag = 1
    /\ classes = ClonedClasses(style.classes)
    /\ actions = <<>>
    /\ buffer = <<>>
    /\ active_font = InitialActiveFont
    /\ width = SizeZero
    /\ selected = <<>>
    /\ result = NoResult
    /\ queries = <<>>
    /\ resolved = <<>>
    /\ borrows = 0
    /\ defect = Unread
    /\ previous = NoCall
NextAgain == Next \/ CallAgain
SpecAgain == InitAgain /\ [][NextAgain]_vars

\* layout_text is synchronous: a call that was started runs on until it
\* returns.
SpecRun == Init /\ [][Next]_vars /\ WF_vars(Next)

\* ================================================================ claims
\* Vocabulary of the claims, stated on the histories and on the result.
Returned == pc = "done"
ReturnedOk == pc = "done" /\ result.kind = "Ok"

RECURSIVE Payloads(_)
\* The payloads of the WriteText actions of acts, concatenated in order.
Payloads(acts) ==
    IF acts = <<>> THEN <<>>
    ELSE (IF Head(acts).op = "WriteText" THEN Head(acts).text ELSE <<>>)
             \o Payloads(Tail(acts))

\* The SetFont actions of acts, in order.
SetFonts(acts) == SelectSeq(acts, LAMBDA a : a.op = "SetFont")
\* The queries issued for the character at position p, in order.
QueriesAt(p) == SelectSeq(queries, LAMBDA q : q.pos = p)
\* The font handles select_font returned, one per processed character.
ResolvedHandles == [p \in DOMAIN resolved |-> resolved[p][1]]
\* The width of character c in a sound font h at the size of the style.
ExpectedWidth(h, c) ==
    CHOOSE w \in 0..(4 * PtScale * style.font_size) :
        w * UnitsPerEm(h) = AdvanceWidth(h, CharMap(h, c)) * style.font_size * PtScale

\* C1: when layout_text returns Ok, the payloads of the WriteText actions of
\* the returned sequence, concatenated in order, are exactly the input text.
C1_PayloadsAreTheText ==
    ReturnedOk => Payloads(result.actions) = text

\* C1 witness: a text of three characters laid out over more than one font.
C1_Witness ==
    /\ ReturnedOk
    /\ Len(text) = 3
    /\ Len(SetFonts(result.actions)) >= 2

\* select_font was called for position p and every class of the fallback
\* list was queried for it without the loader returning a font.
NoFontUnderAnyTag(p) ==
    /\ p <= pos
    /\ \A t \in 1..Len(style.fallback) :
          \E i \in DOMAIN queries :
              /\ queries[i].pos = p
              /\ queries[i].tag = t
              /\ queries[i].answer = None

\* C2: when some character finds a font under no class of style.fallback,
\* layout_text returns NoSuitableFont(c) for the first such character c, the
\* result carries no dimensions and no actions, and no query was issued for
\* a character after c.
C2_FirstUnresolvableCharReported ==
    Returned =>
        \A p \in 1..Len(text) :
            NoFontUnderAnyTag(p) =>
                /\ result.kind = "NoSuitableFont"
                /\ result.char = text[p]
                /\ DOMAIN result = {"kind", "char"}
                /\ \A q \in 1..(p - 1) : ~NoFontUnderAnyTag(q)
                /\ \A i \in DOMAIN queries : queries[i].pos <= p

\* C2 witness: the third character of a text is the one without a font,
\* after two characters that were laid out, with two classes tried for it.
C2_Witness ==
    /\ Returned
    /\ Len(text) = 3
    /\ Len(style.fallback) = 2
    /\ style.fallback[1] # style.fallback[2]
    /\ NoFontUnderAnyTag(3)
    /\ text[3] # text[1]
    /\ actions # <<>>

\* C3: for each character the classes of style.fallback are queried once
\* each, in listed order, up to the first one for which the loader returns a
\* font; the handle and the width recorded for the character are those of
\* that font, and no later class is queried for the character.
C3_FirstMatchingTagWins ==
    \A p \in 1..Len(text) :
        LET qs == QueriesAt(p) IN
        /\ \A i \in 1..Len(qs) :
              /\ qs[i].tag = i
              /\ i <= Len(style.fallback)
              /\ qs[i].query.chars = <<text[p]>>
              /\ qs[i].query.classes # <<>>
              /\ qs[i].query.classes[Len(qs[i].query.classes)] = style.fallback[i]
              /\ i < Len(qs) => qs[i].answer = None
        /\ p \in DOMAIN resolved =>
              /\ Len(qs) >= 1
              /\ qs[Len(qs)].answer = Some(resolved[p][1])
              /\ resolved[p][2] = ExpectedWidth(resolved[p][1], text[p])
        /\ (Returned /\ result.kind = "NoSuitableFont" /\ p = pos) =>
              Len(qs) = Len(style.fallback)

\* C3 witness: a character was resolved by the second class of the fallback
\* list after the first class gave no font.
C3_Witness ==
    \E p \in DOMAIN resolved :
        /\ Len(QueriesAt(p)) = 2
        /\ style.fallback[1] # style.fallback[2]
        /\ QueriesAt(p)[1].answer = None
        /\ p >= 2

\* C4: with an empty fallback list the primary classes alone are tried: a
\* non-empty text whose characters all resolve (to a sound font) under
\* style.classes alone is laid out as one SetFont followed by one WriteText
\* of the whole text.
C4_PrimaryClassesAloneAreTried ==
    ( /\ Returned
      /\ style.fallback = <<>>
      /\ text # <<>>
      /\ \A p \in 1..Len(text) :
            /\ FontQuery(text[p], style.classes) \in DOMAIN loader
            /\ loader[FontQuery(text[p], style.classes)] # None )
    => /\ result.kind = "Ok"
       /\ Len(result.actions) = 2
       /\ result.actions[1].op = "SetFont"
       /\ result.actions[2] = [op |-> "WriteText", text |-> text]

\* C5: in a returned action sequence two successive SetFont actions (the
\* WriteText between them ignored) never carry the same font handle.
C5_NoRedundantSetFont ==
    ReturnedOk =>
        LET sf == SetFonts(result.actions) IN
        \A i \in 1..(Len(sf) - 1) : sf[i].font # sf[i + 1].font

\* C5 witness: a text of three characters, two neighbours of which share a
\* font, laid out with two SetFont actions.
C5_Witness ==
    /\ ReturnedOk
    /\ Len(text) = 3
    /\ \E p \in 1..2 : ResolvedHandles[p] = ResolvedHandles[p + 1]
    /\ Len(SetFonts(result.actions)) = 2

\* C6: a non-empty text whose characters all resolve to one handle h is laid
\* out as exactly SetFont(h, style.font_size), WriteText(text).
C6_OneFontOneRun ==
    ( /\ ReturnedOk
      /\ text # <<>>
      /\ \A p \in DOMAIN resolved : resolved[p][1] = resolved[1][1] )
    => result.actions =
          << [op |-> "SetFont", font |-> resolved[1][1], size |-> style.font_size],
             [op |-> "WriteText", text |-> text] >>

\* C6 witness: three characters, not all equal, resolved to one font.
C6_Witness ==
    /\ ReturnedOk
    /\ Len(text) = 3
    /\ text[1] # text[2]
    /\ \A p \in DOMAIN resolved : resolved[p][1] = resolved[1][1]

\* The last position of the maximal run of one font that starts at p.
RunEnd(p) ==
    CHOOSE e \in p..Len(text) :
        /\ \A k \in p..e : resolved[k][1] = resolved[p][1]
        /\ e < Len(text) => resolved[e + 1][1] # resolved[p][1]

RECURSIVE RunActions(_)
\* One SetFont and one WriteText per maximal run of one font, from p on.
RunActions(p) ==
    IF p > Len(text) THEN <<>>
    ELSE << [op |-> "SetFont", font |-> resolved[p][1], size |-> style.font_size],
            [op |-> "WriteText", text |-> SubSeq(text, p, RunEnd(p))] >>
             \o RunActions(RunEnd(p) + 1)

\* C7: a successful layout holds one SetFont(h, style.font_size) followed by
\* one WriteText per maximal run of consecutive characters resolved to the
\* same handle h, in input order; a font that recurs after a switch is set
\* again and its runs are not merged.
C7_OneRunPerFontBoundary ==
    ReturnedOk => result.actions = RunActions(1)

\* C7 witness: three characters alternating between two fonts at every
\* position, with the same character first and last ("aba" over X, Y, X).
C7_Witness ==
    /\ ReturnedOk
    /\ Len(text) = 3
    /\ text[1] = text[3]
    /\ text[1] # text[2]
    /\ resolved[1][1] = resolved[3][1]
    /\ resolved[1][1] # resolved[2][1]
    /\ Len(result.actions) = 6

RECURSIVE SumWidths(_)
\* The sum of the widths select_font returned for the characters of sel.
SumWidths(sel) ==
    IF sel = <<>> THEN 0 ELSE Head(sel)[2] + SumWidths(Tail(sel))

\* C8: the width of a returned Layout is the sum over the characters of the
\* width select_font computed (the advance of the resolved font scaled by
\* font_size / units_per_em), its height is style.font_size, however the
\* characters were batched; and the accumulated width never decreases.
C8_WidthIsSumOfCharWidths ==
    /\ [](ReturnedOk =>
             /\ Len(resolved) = Len(text)
             /\ \A p \in DOMAIN resolved :
                    resolved[p][2] * UnitsPerEm(resolved[p][1])
                        = AdvanceWidth(resolved[p][1], CharMap(resolved[p][1], text[p]))
                              * style.font_size * PtScale
             /\ result.dimensions.x = SumWidths(resolved)
             /\ result.dimensions.y = style.font_size * PtScale)
    /\ [][width' >= width]_vars

\* C8 witness: three characters over two fonts of different units_per_em at
\* a font size other than 1.
C8_Witness ==
    /\ ReturnedOk
    /\ Len(text) = 3
    /\ style.font_size = 3
    /\ resolved[1][1] # resolved[2][1]
    /\ text[2] # text[3]
    /\ result.dimensions.x > resolved[3][2]

\* C9: for the empty text layout_text returns Ok with no action, width zero,
\* height style.font_size and debug_render off, whatever the style, and the
\* font loader is never borrowed nor queried.
C9_EmptyTextEmptyLayout ==
    text = <<>> =>
        /\ ~held
        /\ borrows = 0
        /\ queries = <<>>
        /\ loader = <<>>
        /\ pc \in {"loop", "done"}
        /\ pc = "loop" => ENABLED Finish
        /\ Returned =>
              result = [kind |-> "Ok",
                        dimensions |-> [x |-> 0, y |-> style.font_size * PtScale],
                        actions |-> <<>>,
                        debug_render |-> FALSE]

\* C9 witness: the empty text was laid out under a style without classes
\* and without fallback.
C9_Witness ==
    /\ text = <<>>
    /\ Returned
    /\ style.classes = <<>>
    /\ style.fallback = <<>>
    /\ style.font_size = 3

\* C10: the fallback class pushed on the working class list is temporary on
\* every outcome: every query issued for a character c and a fallback class
\* f carries chars = [c] and classes = style.classes followed by f alone, and
\* outside select_font the working class list equals style.classes.
C10_FallbackTagIsTemporary ==
    /\ \A i \in DOMAIN queries :
          queries[i].query =
              [chars |-> <<text[queries[i].pos]>>,
               classes |-> Append(style.classes, style.fallback[queries[i].tag])]
    /\ pc # "select" => classes = style.classes

\* The FontQuery values issued for the character at position p, in order.
QuerySequenceAt(p) == [i \in DOMAIN QueriesAt(p) |-> QueriesAt(p)[i].query]

\* C11: what is resolved for a character depends on no earlier state of the
\* layout: for one style and one loader the queries issued for a character
\* and the (handle, width) recorded for it are the same whatever precedes
\* it, so two occurrences of one character in a text see the same queries
\* and get the same (handle, width).
C11_ResolutionIndependentOfPrefix ==
    \A p, q \in DOMAIN resolved :
        text[p] = text[q] =>
            /\ QuerySequenceAt(p) = QuerySequenceAt(q)
            /\ resolved[p] = resolved[q]

\* C12: the initial active font is no handle of the loader: a non-empty text
\* that is laid out starts with SetFont(h, style.font_size) for the handle h
\* of its first character, and every WriteText has a SetFont before it.
C12_FirstActionSetsFirstFont ==
    /\ active_font \notin Handles <=> resolved = <<>>
    /\ (ReturnedOk /\ text # <<>>) =>
          /\ result.actions # <<>>
          /\ result.actions[1] =
                [op |-> "SetFont", font |-> resolved[1][1], size |-> style.font_size]
          /\ \A i \in DOMAIN result.actions :
                result.actions[i].op = "WriteText" =>
                    \E j \in 1..(i - 1) : result.actions[j].op = "SetFont"

\* C12 witness: a text of three characters whose first character resolved
\* to the loader's font 0 was laid out.
C12_Witness ==
    /\ ReturnedOk
    /\ Len(text) = 3
    /\ resolved[1][1] = 0
    /\ resolved[2][1] # 0

\* C13: the loader is borrowed at the start of a character's resolution and
\* released before the layouter goes on: it is held inside select_font only,
\* once per character, never while width, buffer or actions change, never
\* between two characters and on no exit of layout_text, and it is never
\* borrowed while it is held.
C13_LoaderHeldOnlyInsideSelectFont ==
    /\ [](held <=> pc = "select")
    /\ [](borrows = IF pc \in {"select", "body"} \/ (pc = "done" /\ result.kind # "Ok")
                    THEN pos ELSE pos - 1)
    /\ [][borrows' # borrows => (~held /\ held' /\ borrows' = borrows + 1)]_vars
    /\ [][(width' # width \/ buffer' # buffer \/ actions' # actions)
              => (~held /\ ~held')]_vars

\* C13 witness: the loader is free after the third character was resolved
\* under its second fallback class, three borrows having been made.
C13_Witness ==
    /\ pc = "body"
    /\ pos = 3
    /\ borrows = 3
    /\ ~held
    /\ Len(QueriesAt(3)) = 2

\* C14: when the loader returns a font whose tables cannot be read or lack
\* the glyph or its metrics, the layout stops at once with a fault: nothing
\* is recorded for the character, no further class and no later character
\* is queried, no Layout is returned and the outcome is not NoSuitableFont.
C14_DefectiveFontStopsLayout ==
    \A i \in DOMAIN queries :
        queries[i].answer = <<DefectiveFont>> =>
            /\ i = Len(queries)
            /\ pc = "done"
            /\ result.kind \in {"FontError", "Panic"}
            /\ DOMAIN result \cap {"dimensions", "actions", "char"} = {}
            /\ pos = queries[i].pos
            /\ Len(resolved) = pos - 1
            /\ width = SumWidths(resolved)

\* C14 witness: the third character of a text got the defective font from
\* the first of two fallback classes, after two characters were laid out.
C14_Witness ==
    /\ Len(text) = 3
    /\ Len(style.fallback) = 2
    /\ Len(queries) >= 3
    /\ queries[Len(queries)].answer = <<DefectiveFont>>
    /\ queries[Len(queries)].pos = 3
    /\ queries[Len(queries)].tag = 1
    /\ result.kind = "Panic"
    /\ actions # <<>>

\* C15: layout_text keeps no state across calls and leaves the style alone:
\* a second call with the same text and style against the same loader starts
\* from a new buffer, active font, width, action list and working class
\* list, and returns what the first call returned.
C15_NoStateAcrossCalls ==
    /\ [][style' = style /\ text' = text]_vars
    /\ [][previous' # previous =>
             /\ buffer' = <<>>
             /\ active_font' = UsizeMax
             /\ width' = 0
             /\ actions' = <<>>
             /\ classes' = style.classes]_vars
    /\ []((pc = "done" /\ previous # NoCall) => result = previous)

\* C15 witness: a text of two characters over two fonts was laid out twice.
C15_Witness ==
    /\ pc = "done"
    /\ previous # NoCall
    /\ previous.kind = "Ok"
    /\ Len(previous.actions) = 4
    /\ Len(style.fallback) = 2

\* C16: a call ends, with Ok or with an error, and nothing is retried: every
\* pair of a character position and a fallback class is queried at most
\* once, at most len(text) * len(style.fallback) queries are issued, and
\* nothing happens once layout_text has returned.
C16_TerminatesWithoutRetry ==
    /\ <>(pc = "done" /\ result.kind \in {"Ok", "NoSuitableFont", "FontError", "Panic"})
    /\ [](\A i, j \in DOMAIN queries :
              (queries[i].pos = queries[j].pos /\ queries[i].tag = queries[j].tag)
                  => i = j)
    /\ [](Len(queries) <= Len(text) * Len(style.fallback))
    /\ [][pc # "done"]_vars

\* C16 witness: a call used all its queries: three characters, two classes
\* each, the last character without font.
C16_Witness ==
    /\ pc = "done"
    /\ Len(text) = 3
    /\ Len(style.fallback) = 2
    /\ Len(queries) = 6
    /\ result.kind = "NoSuitableFont"

\* C17: a returned action sequence alternates strictly SetFont, WriteText,
\* SetFont, WriteText, ...: it is empty or starts with a SetFont and ends
\* with a WriteText, holds as many SetFont as WriteText actions, no WriteText
\* has an empty payload and every SetFont carries style.font_size.
C17_StrictAlternation ==
    ReturnedOk =>
        LET acts == result.actions IN
        /\ Len(acts) % 2 = 0
        /\ Len(SetFonts(acts)) * 2 = Len(acts)
        /\ \A i \in DOMAIN acts :
              IF i % 2 = 1
              THEN /\ acts[i].op = "SetFont"
                   /\ acts[i].size = style.font_size
              ELSE /\ acts[i].op = "WriteText"
                   /\ acts[i].text # <<>>

\* C17 witness: three characters laid out in two runs at a font size
\* other than 1.
C17_Witness ==
    /\ ReturnedOk
    /\ Len(text) = 3
    /\ Len(result.actions) = 4
    /\ style.font_size = 3
    /\ Len(result.actions[4].text) = 2

\* C18: after each iteration of the character loop the WriteText payloads in
\* the action list followed by the pending buffer are the text processed so
\* far, the buffer is not empty, all its characters resolved to active_font,
\* and the last action is the SetFont of active_font.
C18_LoopInvariant ==
    (pc = "loop" /\ pos > 1) =>
        /\ Payloads(actions) \o buffer = SubSeq(text, 1, pos - 1)
        /\ buffer # <<>>
        /\ Len(resolved) = pos - 1
        /\ \A k \in (pos - Len(buffer))..(pos - 1) : resolved[k][1] = active_font
        /\ actions # <<>>
        /\ actions[Len(actions)] =
              [op |-> "SetFont", font |-> active_font, size |-> style.font_size]

\* C18 witness: after the third iteration a run of two characters, not the
\* same character, is pending behind a run that was written.
C18_Witness ==
    /\ pc = "loop"
    /\ pos = 4
    /\ Len(buffer) = 2
    /\ buffer[1] # buffer[2]
    /\ Len(actions) = 3

====
